---- MODULE Spec2Model ----
(***************************************************************************)
(* Model of the two strategy cores of vouch:                               *)
(*   - package best: Service.BeaconBlockProposal and                       *)
(*     scoreBeaconBlockProposal (src/unnamed/part_000);                    *)
(*   - package standard: Service.calculateSubscriptionInfo                 *)
(*     (src/services/beaconcommitteesubscriber/standard/service.go).       *)
(* One call is modelled at a time; the variable "call" says which.  The    *)
(* semaphore, the wait group, the context and processConcurrency are the   *)
(* per-call objects of whichever function is running.                      *)
(***************************************************************************)
EXTENDS Integers, Sequences, FiniteSets, TLC

\* ------------------------------------------------------------------ bounds
NumProviders == 2
MaxConcurrency == 2
MaxCount == 1
MaxSlot == 2
MaxAttestations == 2
MaxSlashings == 1
NumValidators == 2
NumKeys == 2

\* ------------------------------------------------------- program constants
slashingWeight == 700

VARIABLES
    call,               \* which function the caller invokes
    pc,                 \* position of the calling goroutine
    ctxDone,            \* the parent context is cancelled
    processConcurrency, \* Service.processConcurrency
    sem,                \* permits held of semaphore.NewWeighted(processConcurrency)
    wg,                 \* sync.WaitGroup counter
    slot,               \* BeaconBlockProposal / scoreBeaconBlockProposal slot argument
    \* ---- BeaconBlockProposal
    unspawned,          \* providers the range loop has not reached yet
    gpc,                \* position of each provider goroutine
    proposal,           \* each goroutine's local "proposal"
    clientOps,          \* clientMonitor.ClientOperation record per provider
    mu,                 \* holder of sync.Mutex mu, or Free
    bestScore,
    bestProposal,
    recorded,           \* providers in the order they took mu (history)
    result,             \* what the call returned: Nil until it returns
    \* ---- scoreBeaconBlockProposal called on its own
    blockProposal,
    scoreResult,
    \* ---- calculateSubscriptionInfo: arguments and collaborators
    keyOf,              \* validator index -> the (slot, committee index) of its duty
    aggregators,        \* validators for which IsAggregator answers true
    resolvable,         \* validators whose account.Index(ctx) succeeds
    \* ---- calculateSubscriptionInfo: state
    accountMap,         \* validator indices with an entry in accountMap
    innerMaps,          \* slots for which subscriptionInfo[slot] exists
    subscriptionInfo,   \* (slot, committee index) -> Subscription, or Nil
    readers,            \* workers holding subscriptionInfoMutex.RLock
    writer,             \* worker holding subscriptionInfoMutex.Lock, or Free
    dpc,                \* position of each per-duty goroutine
    wpc,                \* position of each per-validator worker
    isAggregator,       \* each worker's local isAggregator
    exit,               \* how each worker left (history)
    \* ---- Subscribe
    caller,             \* the function that calls calculateSubscriptionInfo, or "none"
    submit,             \* the submission goroutine: "none", "pending", "failed", "succeeded"
    completed,          \* monitor.BeaconCommitteeSubscriptionCompleted statuses, in order
    counts              \* monitor.BeaconCommitteeSubscribers / Aggregators values, or Nil

bestVars == <<unspawned, gpc, proposal, clientOps, mu, bestScore, bestProposal, recorded>>
scoreVars == <<blockProposal, scoreResult>>
callVars == <<call, pc, ctxDone, processConcurrency, sem, wg, slot, result>>
subVars == <<caller, submit, completed, counts>>
calcInputs == <<keyOf, aggregators, resolvable>>
calcVars == <<accountMap, innerMaps, subscriptionInfo, readers, writer,
              dpc, wpc, isAggregator, exit>>
vars == <<callVars, bestVars, scoreVars, subVars, calcInputs, calcVars>>

Free == <<>>
Nil == [nil |-> TRUE]
NoScore == [kind |-> "none"]

Providers == 1..NumProviders
Validators == 1..NumValidators

\* The (slot, committee index) tuples of the epoch's duties: two slots, then
\* further committee indices of the same slots.
KeyPair(k) == <<((k - 1) % 2) + 1, ((k - 1) \div 2) + 1>>
Keys == {KeyPair(k) : k \in 1..NumKeys}
Slots == {key[1] : key \in Keys}



\* ------------------------------------------------------------------------
\* float64 values the scorer can produce.  A finite value is the exact
\* rational n/d plus tiny units of 2^-64 (the quotient of a count by a
\* wrapped-around distance); +Inf and NaN are the results of x/0 and 0/0.
\* ------------------------------------------------------------------------
RECURSIVE GCD(_, _)
GCD(a, b) == IF b = 0 THEN a ELSE GCD(b, a % b)

Fin(n, d) ==
    LET g == GCD(n, d)
    IN  [kind |-> "fin", n |-> n \div g, d |-> d \div g, tiny |-> 0]

Tiny(k) == [kind |-> "fin", n |-> 0, d |-> 1, tiny |-> k]
Inf == [kind |-> "inf"]
NaN == [kind |-> "nan"]
Zero == Fin(0, 1)

\* The one element of a singleton set (used to evaluate an argument once).
Only(S) == CHOOSE x \in S : TRUE

AddValues(v) ==
    IF v[1].kind = "nan" \/ v[2].kind = "nan" THEN NaN
    ELSE IF v[1].kind = "inf" \/ v[2].kind = "inf" THEN Inf
    ELSE IF v[1].n + v[2].n > 0
         THEN Fin(v[1].n * v[2].d + v[2].n * v[1].d, v[1].d * v[2].d)
         ELSE Tiny(v[1].tiny + v[2].tiny)

\* float64 addition of two non-negative values; a 2^-64-sized term is
\* absorbed by rounding as soon as the other operand is a modelled rational.
FAdd(a, b) == Only({AddValues(v) : v \in {<<a, b>>}})

GreaterValues(v) ==
    IF v[1].kind = "nan" \/ v[2].kind = "nan" THEN FALSE
    ELSE IF v[2].kind = "inf" THEN FALSE
    ELSE IF v[1].kind = "inf" THEN TRUE
    ELSE \/ v[1].n * v[2].d > v[2].n * v[1].d
         \/ v[1].n * v[2].d = v[2].n * v[1].d /\ v[1].tiny > v[2].tiny

\* float64 a > b (false whenever a NaN is involved).
FGreater(a, b) == \E v \in {<<a, b>>} : GreaterValues(v)

\* float64(slot - attestation.Data.Slot) / the count: uint64 subtraction wraps
\* to 2^64 - k, which float64 rounds to 2^64.
AttestationQuotient(s, att) ==
    IF att.slot < s THEN Fin(att.count, s - att.slot)
    ELSE IF att.slot = s THEN (IF att.count = 0 THEN NaN ELSE Inf)
    ELSE Tiny(att.count)

RECURSIVE attestationScore(_, _)
attestationScore(s, atts) ==
    IF atts = <<>> THEN Zero
    ELSE FAdd(attestationScore(s, SubSeq(atts, 1, Len(atts) - 1)),
              AttestationQuotient(s, atts[Len(atts)]))

proposerSlashingScore(p) == Fin(p.proposerSlashings * slashingWeight, 1)
attesterSlashingScore(p) == Fin(p.attesterSlashings * slashingWeight, 1)

\* The "total" field of the trace log record of scoreBeaconBlockProposal.
loggedTotal(s, p) ==
    FAdd(FAdd(attestationScore(s, p.attestations), proposerSlashingScore(p)),
         attesterSlashingScore(p))

\* The value scoreBeaconBlockProposal returns.
scoreBeaconBlockProposal(s, p) ==
    FAdd(FAdd(attestationScore(s, p.attestations), proposerSlashingScore(p)),
         attestationScore(s, p.attestations))

\* ------------------------------------------------------------------------
\* Inputs
\* ------------------------------------------------------------------------
BestSlot == MaxSlot

\* Attestations a provider of BeaconBlockProposal includes: for a slot before
\* the requested one, with at least one participant.
GoodAttestations ==
    [count : 1..MaxCount, slot : (BestSlot - 2)..(BestSlot - 1)]

ProviderBodies ==
    [attestations : {<<>>} \cup {<<a>> : a \in GoodAttestations},
     proposerSlashings : {0},
     attesterSlashings : 0..1]

\* ------------------------------------------------------------------------
\* golang.org/x/sync/semaphore and context
\* ------------------------------------------------------------------------
CanAcquireOffByOne == sem <= processConcurrency

\* sem.Acquire(ctx, 1) returns nil: a permit is free.
CanAcquire == sem < processConcurrency
AcquireFailsNever == FALSE

\* sem.Acquire(ctx, 1) returns ctx.Err(): the context is done.
AcquireFails == ctxDone

\* The parent context is cancelled while the call is in progress.
Cancel ==
    /\ pc \in {"accounts", "spawn", "wait"}
    /\ ~ctxDone
    /\ ctxDone' = TRUE
    /\ UNCHANGED <<call, pc, processConcurrency, sem, wg, slot, result, bestVars,
                   scoreVars, subVars, calcInputs, calcVars>>

\* ------------------------------------------------------------------------
\* Service.BeaconBlockProposal
\* ------------------------------------------------------------------------
\* for name, provider := range providers { wg.Add(1); go func(...) }
BestSpawn(p) ==
    /\ call = "BeaconBlockProposal"
    /\ pc = "spawn"
    /\ p \in unspawned
    /\ unspawned' = unspawned \ {p}
    /\ wg' = wg + 1
    /\ gpc' = [gpc EXCEPT ![p] = "acquire"]
    /\ pc' = IF unspawned' = {} THEN "wait" ELSE "spawn"
    /\ UNCHANGED <<call, ctxDone, processConcurrency, sem, slot, result, proposal, clientOps,
                   mu, bestScore, bestProposal, recorded, scoreVars, subVars,
                   calcInputs, calcVars>>

\* sem.Acquire(ctx, 1) succeeds.
BestAcquire(p) ==
    /\ gpc[p] = "acquire"
    /\ CanAcquire
    /\ sem' = sem + 1
    /\ gpc' = [gpc EXCEPT ![p] = "call"]
    /\ UNCHANGED <<call, pc, ctxDone, processConcurrency, wg, slot, result, unspawned, proposal,
                   clientOps, mu, bestScore, bestProposal, recorded, scoreVars, subVars,
                   calcInputs, calcVars>>

\* sem.Acquire(ctx, 1) fails: log, return (deferred wg.Done).
BestAcquireFail(p) ==
    /\ gpc[p] = "acquire"
    /\ AcquireFails
    /\ gpc' = [gpc EXCEPT ![p] = "done"]
    /\ wg' = wg - 1
    /\ UNCHANGED <<call, pc, ctxDone, processConcurrency, sem, slot, result, unspawned, proposal,
                   clientOps, mu, bestScore, bestProposal, recorded, scoreVars, subVars,
                   calcInputs, calcVars>>

\* What the goroutine does with the semaphore when the provider call has
\* returned, on either path: nothing (there is no sem.Release).
SemAfterProviderCall(held) == held

\* provider.BeaconBlockProposal returns an error (or times out):
\* ClientOperation(..., false, ...), cancel(), return (deferred wg.Done).
BestProviderFails(p) ==
    /\ gpc[p] = "call"
    /\ clientOps' = [clientOps EXCEPT ![p] = "failed"]
    /\ gpc' = [gpc EXCEPT ![p] = "done"]
    /\ sem' = SemAfterProviderCall(sem)
    /\ wg' = wg - 1
    /\ UNCHANGED <<call, pc, ctxDone, processConcurrency, slot, result, unspawned, proposal,
                   mu, bestScore, bestProposal, recorded, scoreVars, subVars,
                   calcInputs, calcVars>>

\* provider.BeaconBlockProposal returns a proposal:
\* ClientOperation(..., true, ...), cancel().
BestProviderReturns(p) ==
    /\ gpc[p] = "call"
    /\ \E body \in ProviderBodies :
          proposal' = [proposal EXCEPT ![p] = [provider |-> p, body |-> body]]
    /\ clientOps' = [clientOps EXCEPT ![p] = "succeeded"]
    /\ gpc' = [gpc EXCEPT ![p] = "lock"]
    /\ sem' = SemAfterProviderCall(sem)
    /\ UNCHANGED <<call, pc, ctxDone, processConcurrency, wg, slot, result, unspawned,
                   mu, bestScore, bestProposal, recorded, scoreVars, subVars,
                   calcInputs, calcVars>>

\* mu.Lock()
BestLock(p) ==
    /\ gpc[p] = "lock"
    /\ mu = Free
    /\ mu' = <<p>>
    /\ recorded' = Append(recorded, p)
    /\ gpc' = [gpc EXCEPT ![p] = "update"]
    /\ UNCHANGED <<callVars, unspawned, proposal, clientOps, bestScore, bestProposal,
                   scoreVars, subVars, calcInputs, calcVars>>

\* if score > bestScore || bestProposal == nil
Better(score) == FGreater(score, bestScore) \/ bestProposal = Nil

\* score := scoreBeaconBlockProposal(...); update of the running best;
\* mu.Unlock(); return (deferred wg.Done).
BestUpdate(p) ==
    /\ gpc[p] = "update"
    /\ mu = <<p>>
    /\ \E score \in {scoreBeaconBlockProposal(slot, proposal[p].body)} :
          IF Better(score)
          THEN /\ bestScore' = score
               /\ bestProposal' = proposal[p]
          ELSE UNCHANGED <<bestScore, bestProposal>>
    /\ mu' = Free
    /\ gpc' = [gpc EXCEPT ![p] = "done"]
    /\ wg' = wg - 1
    /\ UNCHANGED <<call, pc, ctxDone, processConcurrency, sem, slot, result, unspawned, proposal,
                   clientOps, recorded, scoreVars, subVars,
                   calcInputs, calcVars>>

WaitDoneOnFirstBest == wg = 0 \/ bestProposal # Nil

\* wg.Wait() has nothing left to wait for.
WaitDone == wg = 0

BestReturnValueErrorWhenNone ==
    [proposal |-> bestProposal,
     err |-> IF bestProposal = Nil THEN [error |-> "no proposal"] ELSE Nil]

\* return bestProposal, nil
BestReturnValue == [proposal |-> bestProposal, err |-> Nil]

\* wg.Wait(); return bestProposal, nil
BestReturn ==
    /\ call = "BeaconBlockProposal"
    /\ pc = "wait"
    /\ WaitDone
    /\ pc' = "returned"
    /\ result' = BestReturnValue
    /\ UNCHANGED <<call, ctxDone, processConcurrency, sem, wg, slot, bestVars,
                   scoreVars, subVars, calcInputs, calcVars>>

BestIdle ==
    /\ unspawned = {}
    /\ gpc = [p \in Providers |-> "idle"]
    /\ proposal = [p \in Providers |-> Nil]
    /\ clientOps = [p \in Providers |-> "none"]
    /\ mu = Free
    /\ bestScore = Zero
    /\ bestProposal = Nil
    /\ recorded = <<>>

\* The variables of calculateSubscriptionInfo while another function runs.
CalcIdle ==
    /\ keyOf = [v \in Validators |-> KeyPair(1)]
    /\ aggregators = {}
    /\ resolvable = {}
    /\ accountMap = {}
    /\ innerMaps = {}
    /\ subscriptionInfo = [key \in Keys |-> Nil]
    /\ readers = {}
    /\ writer = Free
    /\ dpc = [s \in Slots |-> "idle"]
    /\ wpc = [v \in Validators |-> "idle"]
    /\ isAggregator = [v \in Validators |-> FALSE]
    /\ exit = [v \in Validators |-> "none"]

ScoreIdle ==
    /\ blockProposal = Nil
    /\ scoreResult = NoScore

\* The variables of Subscribe while another function is called directly.
SubIdle ==
    /\ caller = "none"
    /\ submit = "none"
    /\ completed = <<>>
    /\ counts = Nil

\* State on entry to BeaconBlockProposal: bestScore := 0, bestProposal nil,
\* a fresh semaphore and wait group.
InitBest ==
    /\ call = "BeaconBlockProposal"
    /\ pc = "spawn"
    /\ ctxDone = FALSE
    /\ processConcurrency \in 1..MaxConcurrency
    /\ sem = 0
    /\ wg = 0
    /\ slot = BestSlot
    /\ result = Nil
    /\ unspawned = Providers
    /\ gpc = [p \in Providers |-> "idle"]
    /\ proposal = [p \in Providers |-> Nil]
    /\ clientOps = [p \in Providers |-> "none"]
    /\ mu = Free
    /\ bestScore = Zero
    /\ bestProposal = Nil
    /\ recorded = <<>>
    /\ ScoreIdle
    /\ CalcIdle
    /\ SubIdle

NextBest ==
    \/ Cancel
    \/ \E p \in Providers : BestSpawn(p)
    \/ \E p \in Providers : BestAcquire(p)
    \/ \E p \in Providers : BestAcquireFail(p)
    \/ \E p \in Providers : BestProviderFails(p)
    \/ \E p \in Providers : BestProviderReturns(p)
    \/ \E p \in Providers : BestLock(p)
    \/ \E p \in Providers : BestUpdate(p)
    \/ BestReturn

SpecBest == InitBest /\ [][NextBest]_vars

\* ------------------------------------------------------------------------
\* Service.calculateSubscriptionInfo
\* ------------------------------------------------------------------------
\* duty.ValidatorIndices() of the merged duty of slot s (ascending).
DutyValidators(s) == {v \in Validators : keyOf[v][1] = s}
\* The slots of the duties slice.
DutySlots == {keyOf[v][1] : v \in Validators}

\* &beaconcommitteesubscriber.Subscription{...} as the worker of v builds it.
\* (CommitteeSize depends on the key alone and is left out.)
Subscription(v) ==
    [ValidatorIndex |-> v,
     ValidatorPubKey |-> <<"pubkey", v>>,
     Signature |-> <<"sig", v>>,
     Aggregate |-> isAggregator[v]]

\* for _, account := range accounts { index, err := account.Index(ctx); ... }
BuildAccountMapWithFailed == Validators

BuildAccountMap == resolvable

CalcAccounts ==
    /\ call = "calculateSubscriptionInfo"
    /\ pc = "accounts"
    /\ accountMap' = BuildAccountMap
    /\ pc' = "spawn"
    /\ UNCHANGED <<call, ctxDone, processConcurrency, sem, wg, slot, result, bestVars,
                   scoreVars, subVars, calcInputs, innerMaps, subscriptionInfo, readers, writer,
                   dpc, wpc, isAggregator, exit>>

\* for _, duty := range duties { wg.Add(1); go func(...) }
CalcSpawnDuty(s) ==
    /\ call = "calculateSubscriptionInfo"
    /\ pc = "spawn"
    /\ s \in DutySlots
    /\ dpc[s] = "idle"
    /\ \A t \in DutySlots : t < s => dpc[t] # "idle"
    /\ wg' = wg + 1
    /\ dpc' = [dpc EXCEPT ![s] = "run"]
    /\ pc' = IF \A t \in DutySlots : dpc'[t] # "idle" THEN "wait" ELSE "spawn"
    /\ UNCHANGED <<call, ctxDone, processConcurrency, sem, slot, result, bestVars,
                   scoreVars, subVars, calcInputs, accountMap, innerMaps, subscriptionInfo,
                   readers, writer, wpc, isAggregator, exit>>

\* The worker is started without the wg.Add(1) of line 180.
DutySpawnWorkerWithoutAdd(s, v) ==
    /\ dpc[s] = "run"
    /\ v \in DutyValidators(s)
    /\ wpc[v] = "idle"
    /\ \A u \in DutyValidators(s) : u < v => wpc[u] # "idle"
    /\ wpc' = [wpc EXCEPT ![v] = "acquire"]
    /\ UNCHANGED <<call, pc, ctxDone, processConcurrency, sem, wg, slot, result, bestVars,
                   scoreVars, subVars, calcInputs, accountMap, innerMaps, subscriptionInfo,
                   readers, writer, dpc, isAggregator, exit>>

\* for i := range duty.ValidatorIndices() { wg.Add(1); go func(...) }
DutySpawnWorker(s, v) ==
    /\ dpc[s] = "run"
    /\ v \in DutyValidators(s)
    /\ wpc[v] = "idle"
    /\ \A u \in DutyValidators(s) : u < v => wpc[u] # "idle"
    /\ wg' = wg + 1
    /\ wpc' = [wpc EXCEPT ![v] = "acquire"]
    /\ UNCHANGED <<call, pc, ctxDone, processConcurrency, sem, slot, result, bestVars,
                   scoreVars, subVars, calcInputs, accountMap, innerMaps, subscriptionInfo,
                   readers, writer, dpc, isAggregator, exit>>

\* The per-duty goroutine's loop is over: deferred wg.Done().
DutyDone(s) ==
    /\ dpc[s] = "run"
    /\ \A u \in DutyValidators(s) : wpc[u] # "idle"
    /\ wg' = wg - 1
    /\ dpc' = [dpc EXCEPT ![s] = "done"]
    /\ UNCHANGED <<call, pc, ctxDone, processConcurrency, sem, slot, result, bestVars,
                   scoreVars, subVars, calcInputs, accountMap, innerMaps, subscriptionInfo,
                   readers, writer, wpc, isAggregator, exit>>

\* sem.Acquire(ctx, 1) succeeds; defer sem.Release(1).
WorkerAcquire(v) ==
    /\ wpc[v] = "acquire"
    /\ CanAcquire
    /\ sem' = sem + 1
    /\ wpc' = [wpc EXCEPT ![v] = "rlock"]
    /\ UNCHANGED <<call, pc, ctxDone, processConcurrency, wg, slot, result, bestVars,
                   scoreVars, subVars, calcInputs, accountMap, innerMaps, subscriptionInfo,
                   readers, writer, dpc, isAggregator, exit>>

\* sem.Acquire(ctx, 1) fails: log, return (deferred wg.Done).
WorkerAcquireFail(v) ==
    /\ wpc[v] = "acquire"
    /\ AcquireFails
    /\ wg' = wg - 1
    /\ wpc' = [wpc EXCEPT ![v] = "done"]
    /\ exit' = [exit EXCEPT ![v] = "semfail"]
    /\ UNCHANGED <<call, pc, ctxDone, processConcurrency, sem, slot, result, bestVars,
                   scoreVars, subVars, calcInputs, accountMap, innerMaps, subscriptionInfo,
                   readers, writer, dpc, isAggregator>>

\* subscriptionInfoMutex.RLock()
WorkerRLock(v) ==
    /\ wpc[v] = "rlock"
    /\ writer = Free
    /\ readers' = readers \cup {v}
    /\ wpc' = [wpc EXCEPT ![v] = "read"]
    /\ UNCHANGED <<callVars, bestVars, scoreVars, subVars, calcInputs, accountMap, innerMaps,
                   subscriptionInfo, writer, dpc, isAggregator, exit>>

\* Any entry of the tuple counts, aggregator or not.
AlreadyPresent(key) == subscriptionInfo[key] # Nil

\* info, exists := subscriptionInfo[slot][committeeIndex]; exists && info.Aggregate
AlreadyAggregator(key) ==
    subscriptionInfo[key] # Nil /\ subscriptionInfo[key].Aggregate

\* The returns of a worker that holds a permit run the deferred
\* sem.Release(1) and wg.Done().
\* RUnlock; "Already an aggregator for this slot/committee": return.
WorkerSkip(v) ==
    /\ wpc[v] = "read"
    /\ AlreadyAggregator(keyOf[v])
    /\ readers' = readers \ {v}
    /\ sem' = sem - 1
    /\ wg' = wg - 1
    /\ wpc' = [wpc EXCEPT ![v] = "done"]
    /\ exit' = [exit EXCEPT ![v] = "skip"]
    /\ UNCHANGED <<call, pc, ctxDone, processConcurrency, slot, result, bestVars,
                   scoreVars, subVars, calcInputs, accountMap, innerMaps, subscriptionInfo,
                   writer, dpc, isAggregator>>

\* RUnlock; no aggregator recorded for the tuple: go on to the oracle.
WorkerProceed(v) ==
    /\ wpc[v] = "read"
    /\ ~AlreadyAggregator(keyOf[v])
    /\ readers' = readers \ {v}
    /\ wpc' = [wpc EXCEPT ![v] = "oracle"]
    /\ UNCHANGED <<callVars, bestVars, scoreVars, subVars, calcInputs, accountMap, innerMaps,
                   subscriptionInfo, writer, dpc, isAggregator, exit>>

\* IsAggregator returns an error: log, return.
WorkerOracleError(v) ==
    /\ wpc[v] = "oracle"
    /\ sem' = sem - 1
    /\ wg' = wg - 1
    /\ wpc' = [wpc EXCEPT ![v] = "done"]
    /\ exit' = [exit EXCEPT ![v] = "oracleerr"]
    /\ UNCHANGED <<call, pc, ctxDone, processConcurrency, slot, result, bestVars,
                   scoreVars, subVars, calcInputs, accountMap, innerMaps, subscriptionInfo,
                   readers, writer, dpc, isAggregator>>

\* IsAggregator returns; accountMap has no entry for the validator: log, return.
WorkerNoAccount(v) ==
    /\ wpc[v] = "oracle"
    /\ v \notin accountMap
    /\ isAggregator' = [isAggregator EXCEPT ![v] = v \in aggregators]
    /\ sem' = sem - 1
    /\ wg' = wg - 1
    /\ wpc' = [wpc EXCEPT ![v] = "done"]
    /\ exit' = [exit EXCEPT ![v] = "noaccount"]
    /\ UNCHANGED <<call, pc, ctxDone, processConcurrency, slot, result, bestVars,
                   scoreVars, subVars, calcInputs, accountMap, innerMaps, subscriptionInfo,
                   readers, writer, dpc>>

\* IsAggregator returns; the account is found.
WorkerOracleReturns(v) ==
    /\ wpc[v] = "oracle"
    /\ v \in accountMap
    /\ isAggregator' = [isAggregator EXCEPT ![v] = v \in aggregators]
    /\ wpc' = [wpc EXCEPT ![v] = "lock"]
    /\ UNCHANGED <<callVars, bestVars, scoreVars, subVars, calcInputs, accountMap, innerMaps,
                   subscriptionInfo, readers, writer, dpc, exit>>

\* subscriptionInfoMutex.Lock(); create subscriptionInfo[slot] if missing.
WorkerLock(v) ==
    /\ wpc[v] = "lock"
    /\ writer = Free
    /\ readers = {}
    /\ writer' = <<v>>
    /\ innerMaps' = innerMaps \cup {keyOf[v][1]}
    /\ wpc' = [wpc EXCEPT ![v] = "pubkey"]
    /\ UNCHANGED <<callVars, bestVars, scoreVars, subVars, calcInputs, accountMap,
                   subscriptionInfo, readers, dpc, isAggregator, exit>>

\* The write lock after the return on a PubKey error: still held (the
\* return is not preceded by an Unlock).
WriterAfterPubKeyError(w) == w

\* account.PubKey fails: log, return.
WorkerPubKeyError(v) ==
    /\ wpc[v] = "pubkey"
    /\ writer = <<v>>
    /\ writer' = WriterAfterPubKeyError(writer)
    /\ sem' = sem - 1
    /\ wg' = wg - 1
    /\ wpc' = [wpc EXCEPT ![v] = "done"]
    /\ exit' = [exit EXCEPT ![v] = "pubkeyerr"]
    /\ UNCHANGED <<call, pc, ctxDone, processConcurrency, slot, result, bestVars,
                   scoreVars, subVars, calcInputs, accountMap, innerMaps, subscriptionInfo,
                   readers, dpc, isAggregator>>

\* The entry of the tuple after the worker of v has stored its Subscription.
StoreSubscription(key, v) == Subscription(v)

\* account.PubKey succeeds: subscriptionInfo[slot][committeeIndex] = &Subscription{};
\* Unlock; return.
WorkerWrite(v) ==
    /\ wpc[v] = "pubkey"
    /\ writer = <<v>>
    /\ subscriptionInfo' =
          [subscriptionInfo EXCEPT ![keyOf[v]] = StoreSubscription(keyOf[v], v)]
    /\ writer' = Free
    /\ sem' = sem - 1
    /\ wg' = wg - 1
    /\ wpc' = [wpc EXCEPT ![v] = "done"]
    /\ exit' = [exit EXCEPT ![v] = "written"]
    /\ UNCHANGED <<call, pc, ctxDone, processConcurrency, slot, result, bestVars,
                   scoreVars, subVars, calcInputs, accountMap, innerMaps, readers, dpc,
                   isAggregator>>

CalcReturnValueErrorWhenNoAccounts ==
    [info |-> subscriptionInfo, slots |-> innerMaps,
     err |-> IF accountMap = {} THEN [error |-> "no accounts"] ELSE Nil]

\* return subscriptionInfo, nil
CalcReturnValue ==
    [info |-> subscriptionInfo, slots |-> innerMaps, err |-> Nil]

\* wg.Wait(); return subscriptionInfo, nil
CalcReturn ==
    /\ call = "calculateSubscriptionInfo"
    /\ pc = "wait"
    /\ WaitDone
    /\ pc' = "returned"
    /\ result' = CalcReturnValue
    /\ UNCHANGED <<call, ctxDone, processConcurrency, sem, wg, slot, bestVars, scoreVars,
                   subVars, calcInputs, calcVars>>

\* State on entry to calculateSubscriptionInfo: an empty map, a fresh lock,
\* semaphore and wait group.  Every validator has one duty; the tuples are
\* numbered in the order the validators first use them.  The oracle's answer
\* for a validator without an account is discarded by the worker, so only
\* validators with an account are drawn as aggregators.
InitCalc ==
    /\ call = "calculateSubscriptionInfo"
    /\ pc = "accounts"
    /\ ctxDone = FALSE
    /\ processConcurrency \in 1..MaxConcurrency
    /\ sem = 0
    /\ wg = 0
    /\ slot = 0
    /\ result = Nil
    /\ BestIdle
    /\ ScoreIdle
    /\ SubIdle
    /\ keyOf \in {f \in [Validators -> Keys] :
                    \A v \in Validators : \E k \in 1..v : f[v] = KeyPair(k)}
    /\ resolvable \in SUBSET Validators
    /\ aggregators \in SUBSET resolvable
    /\ accountMap = {}
    /\ innerMaps = {}
    /\ subscriptionInfo = [key \in Keys |-> Nil]
    /\ readers = {}
    /\ writer = Free
    /\ dpc = [s \in Slots |-> "idle"]
    /\ wpc = [v \in Validators |-> "idle"]
    /\ isAggregator = [v \in Validators |-> FALSE]
    /\ exit = [v \in Validators |-> "none"]

NextCalc ==
    \/ Cancel
    \/ CalcAccounts
    \/ \E s \in Slots : CalcSpawnDuty(s)
    \/ \E s \in Slots, v \in Validators : DutySpawnWorker(s, v)
    \/ \E s \in Slots : DutyDone(s)
    \/ \E v \in Validators : WorkerAcquire(v)
    \/ \E v \in Validators : WorkerAcquireFail(v)
    \/ \E v \in Validators : WorkerRLock(v)
    \/ \E v \in Validators : WorkerSkip(v)
    \/ \E v \in Validators : WorkerProceed(v)
    \/ \E v \in Validators : WorkerOracleError(v)
    \/ \E v \in Validators : WorkerNoAccount(v)
    \/ \E v \in Validators : WorkerOracleReturns(v)
    \/ \E v \in Validators : WorkerLock(v)
    \/ \E v \in Validators : WorkerPubKeyError(v)
    \/ \E v \in Validators : WorkerWrite(v)
    \/ CalcReturn

SpecCalc == InitCalc /\ [][NextCalc]_vars

\* ------------------------------------------------------------------------
\* Service.Subscribe
\* ------------------------------------------------------------------------
\* return nil, errors.Wrap(err, ...): a nil map and an error.
FailureValueNoError(msg) == [info |-> Nil, slots |-> {}, err |-> Nil]

FailureValue(msg) == [info |-> Nil, slots |-> {}, err |-> [error |-> msg]]

\* The counts of lines 103-112 over the calculated map.
CountSubscriptions(info) ==
    [subscribers |-> Cardinality({key \in Keys : info[key] # Nil}),
     aggregators |-> Cardinality({key \in Keys : info[key] # Nil /\ info[key].Aggregate})]

\* AttesterDuties returns an error: report "failed", return nil and the error.
SubscribeFetchFails ==
    /\ call = "Subscribe"
    /\ pc = "fetch"
    /\ completed' = Append(completed, "failed")
    /\ result' = FailureValue("failed to obtain attester duties")
    /\ pc' = "returned"
    /\ UNCHANGED <<call, ctxDone, processConcurrency, sem, wg, slot, bestVars,
                   scoreVars, caller, submit, counts, calcInputs, calcVars>>

\* AttesterDuties returns the duties.
SubscribeFetched ==
    /\ call = "Subscribe"
    /\ pc = "fetch"
    /\ pc' = "merge"
    /\ UNCHANGED <<call, ctxDone, processConcurrency, sem, wg, slot, result, bestVars,
                   scoreVars, subVars, calcInputs, calcVars>>

\* MergeDuties returns an error: report "failed", return nil and the error.
SubscribeMergeFails ==
    /\ call = "Subscribe"
    /\ pc = "merge"
    /\ completed' = Append(completed, "failed")
    /\ result' = FailureValue("failed to merge attester duties")
    /\ pc' = "returned"
    /\ UNCHANGED <<call, ctxDone, processConcurrency, sem, wg, slot, bestVars,
                   scoreVars, caller, submit, counts, calcInputs, calcVars>>

\* MergeDuties returns; s.calculateSubscriptionInfo(ctx, epoch, accounts, duties)
\* is entered.
SubscribeMerged ==
    /\ call = "Subscribe"
    /\ pc = "merge"
    /\ call' = "calculateSubscriptionInfo"
    /\ pc' = "accounts"
    /\ UNCHANGED <<ctxDone, processConcurrency, sem, wg, slot, result, bestVars,
                   scoreVars, subVars, calcInputs, calcVars>>

\* The position of the submission goroutine once line 117 has run.
SubmitSpawned == "pending"

\* calculateSubscriptionInfo has returned to Subscribe (lines 95-140): on an
\* error report "failed" and return; otherwise report the two counts and
\* start the submission goroutine.
SubscribeCalculated ==
    /\ caller = "Subscribe"
    /\ call = "calculateSubscriptionInfo"
    /\ pc = "returned"
    /\ call' = "Subscribe"
    /\ IF result.err # Nil
       THEN /\ completed' = Append(completed, "failed")
            /\ result' = FailureValue("failed to calculate subscription duties")
            /\ pc' = "returned"
            /\ UNCHANGED <<submit, counts>>
       ELSE /\ counts' = CountSubscriptions(result.info)
            /\ submit' = SubmitSpawned
            /\ pc' = "return"
            /\ UNCHANGED <<completed, result>>
    /\ UNCHANGED <<ctxDone, processConcurrency, sem, wg, slot, bestVars, scoreVars,
                   caller, calcInputs, calcVars>>

\* SubmitBeaconCommitteeSubscriptions returns an error: report "failed".
SubmitFails ==
    /\ submit = "pending"
    /\ submit' = "failed"
    /\ completed' = Append(completed, "failed")
    /\ UNCHANGED <<callVars, bestVars, scoreVars, caller, counts, calcInputs, calcVars>>

\* A second report by the goroutine after its first one.
CompletedAfterSubmitTwice == Append(Append(completed, "succeeded"), "succeeded")

\* s.monitor.BeaconCommitteeSubscriptionCompleted(started, "succeeded")
CompletedAfterSubmit == Append(completed, "succeeded")

\* SubmitBeaconCommitteeSubscriptions returns nil: report "succeeded".
SubmitSucceeds ==
    /\ submit = "pending"
    /\ submit' = "succeeded"
    /\ completed' = CompletedAfterSubmit
    /\ UNCHANGED <<callVars, bestVars, scoreVars, caller, counts, calcInputs, calcVars>>

\* The caller waits for the submission goroutine before it returns.
MayReturnAfterSubmission == submit \in {"failed", "succeeded"}

\* Nothing holds line 143 back once the goroutine is started.
MayReturn == TRUE

\* return subscriptionInfo, nil
SubscribeReturn ==
    /\ call = "Subscribe"
    /\ pc = "return"
    /\ MayReturn
    /\ pc' = "returned"
    /\ result' = [info |-> result.info, slots |-> result.slots, err |-> Nil]
    /\ UNCHANGED <<call, ctxDone, processConcurrency, sem, wg, slot, bestVars,
                   scoreVars, subVars, calcInputs, calcVars>>

\* State on entry to Subscribe: nothing reported yet, and the arguments and
\* collaborators of the nested calculateSubscriptionInfo as in InitCalc.
InitSubscribe ==
    /\ call = "Subscribe"
    /\ pc = "fetch"
    /\ ctxDone = FALSE
    /\ processConcurrency \in 1..MaxConcurrency
    /\ sem = 0
    /\ wg = 0
    /\ slot = 0
    /\ result = Nil
    /\ BestIdle
    /\ ScoreIdle
    /\ caller = "Subscribe"
    /\ submit = "none"
    /\ completed = <<>>
    /\ counts = Nil
    /\ keyOf \in {f \in [Validators -> Keys] :
                    \A v \in Validators : \E k \in 1..v : f[v] = KeyPair(k)}
    /\ resolvable \in SUBSET Validators
    /\ aggregators \in SUBSET resolvable
    /\ accountMap = {}
    /\ innerMaps = {}
    /\ subscriptionInfo = [key \in Keys |-> Nil]
    /\ readers = {}
    /\ writer = Free
    /\ dpc = [s \in Slots |-> "idle"]
    /\ wpc = [v \in Validators |-> "idle"]
    /\ isAggregator = [v \in Validators |-> FALSE]
    /\ exit = [v \in Validators |-> "none"]

NextSubscribe ==
    \/ SubscribeFetchFails
    \/ SubscribeFetched
    \/ SubscribeMergeFails
    \/ SubscribeMerged
    \/ NextCalc
    \/ SubscribeCalculated
    \/ SubmitFails
    \/ SubmitSucceeds
    \/ SubscribeReturn

SpecSubscribe == InitSubscribe /\ [][NextSubscribe]_vars

\* ------------------------------------------------------------------------
\* scoreBeaconBlockProposal called on its own
\* ------------------------------------------------------------------------
\* Attestations of any shape: no participant, or a slot at or after the
\* requested one, included.
AnyAttestations == [count : 0..MaxCount, slot : 0..(MaxSlot + 1)]

RECURSIVE SeqsUpTo(_, _)
SeqsUpTo(S, n) ==
    IF n = 0 THEN {<<>>}
    ELSE SeqsUpTo(S, n - 1)
         \cup {Append(q, x) : q \in {r \in SeqsUpTo(S, n - 1) : Len(r) = n - 1}, x \in S}

ScoreBodies ==
    [attestations : SeqsUpTo(AnyAttestations, MaxAttestations),
     proposerSlashings : 0..MaxSlashings,
     attesterSlashings : 0..MaxSlashings]

InitScore ==
    /\ call = "scoreBeaconBlockProposal"
    /\ pc = "call"
    /\ ctxDone = FALSE
    /\ processConcurrency = 1
    /\ sem = 0
    /\ wg = 0
    /\ slot \in 1..MaxSlot
    /\ result = Nil
    /\ BestIdle
    /\ CalcIdle
    /\ SubIdle
    /\ blockProposal \in ScoreBodies
    /\ scoreResult = NoScore

\* return attestationScore + proposerSlashingScore + attestationScore
ScoreReturn ==
    /\ call = "scoreBeaconBlockProposal"
    /\ pc = "call"
    /\ scoreResult' = scoreBeaconBlockProposal(slot, blockProposal)
    /\ pc' = "returned"
    /\ UNCHANGED <<call, ctxDone, processConcurrency, sem, wg, slot, result, bestVars,
                   blockProposal, subVars, calcInputs, calcVars>>

NextScore == ScoreReturn

SpecScore == InitScore /\ [][NextScore]_vars

\* Either strategy function is called.
Init == InitBest \/ InitCalc
Next == NextBest \/ NextCalc
Spec == Init /\ [][Next]_vars

\* Every goroutine step is eventually scheduled, every provider call returns
\* (at the latest when its opCtx times out) and the caller proceeds; the
\* parent context may or may not be cancelled.
FairBest ==
    /\ \A p \in Providers : WF_vars(BestSpawn(p))
    /\ \A p \in Providers : WF_vars(BestAcquire(p) \/ BestAcquireFail(p))
    /\ \A p \in Providers : WF_vars(BestProviderFails(p) \/ BestProviderReturns(p))
    /\ \A p \in Providers : WF_vars(BestLock(p))
    /\ \A p \in Providers : WF_vars(BestUpdate(p))
    /\ WF_vars(BestReturn)

FairSpecBest == InitBest /\ [][NextBest]_vars /\ FairBest

\* The Go scheduler runs every goroutine that can take a step, and wg.Wait
\* returns once the counter is zero; nothing obliges a caller to cancel.
FairCalc ==
    /\ WF_vars(CalcAccounts)
    /\ WF_vars(CalcReturn)
    /\ \A s \in Slots :
          /\ WF_vars(CalcSpawnDuty(s))
          /\ WF_vars(\E v \in Validators : DutySpawnWorker(s, v))
          /\ WF_vars(DutyDone(s))
    /\ \A v \in Validators :
          /\ WF_vars(WorkerAcquire(v) \/ WorkerAcquireFail(v))
          /\ WF_vars(WorkerRLock(v))
          /\ WF_vars(WorkerSkip(v) \/ WorkerProceed(v))
          /\ WF_vars(WorkerOracleError(v) \/ WorkerNoAccount(v) \/ WorkerOracleReturns(v))
          /\ WF_vars(WorkerLock(v))
          /\ WF_vars(WorkerPubKeyError(v) \/ WorkerWrite(v))

FairSpecCalc == InitCalc /\ [][NextCalc]_vars /\ FairCalc

\* ------------------------------------------------------------------------
\* Properties of BeaconBlockProposal
\* ------------------------------------------------------------------------
Succeeded == {p \in Providers : clientOps[p] = "succeeded"}
Failed == {p \in Providers : clientOps[p] = "failed"}
InFlight == {p \in Providers : gpc[p] = "call"}
BestReturned == call = "BeaconBlockProposal" /\ pc = "returned"

\* Position of provider p in the order the mutex was taken.
RecordedAt(p) == CHOOSE i \in 1..Len(recorded) : recorded[i] = p

\* The score of §4.2 of a successful provider's proposal.
TotalOf(p) == loggedTotal(slot, proposal[p].body)
\* The value the scorer returned for it.
ScoredOf(p) == scoreBeaconBlockProposal(slot, proposal[p].body)

\* C1: when k >= 1 providers succeeded, the returned proposal is one of the
\* successes, no success has a greater score (attestation + proposer-slashing
\* + attester-slashing score), and among the successes of equal score it is
\* the one that took the mutex first.
C1_ReturnsMaximalScore ==
    (BestReturned /\ Succeeded # {}) =>
        /\ result.proposal # Nil
        /\ result.proposal.provider \in Succeeded
        /\ \A q \in Succeeded :
              /\ ~FGreater(TotalOf(q), TotalOf(result.proposal.provider))
              /\ TotalOf(q) = TotalOf(result.proposal.provider)
                    => RecordedAt(result.proposal.provider) <= RecordedAt(q)

\* The reduction itself, measured by the value the scorer returned: the
\* returned proposal is maximal and first among equals.
ReturnsMaximalReturnedScore ==
    (BestReturned /\ Succeeded # {}) =>
        /\ result.proposal # Nil
        /\ result.proposal.provider \in Succeeded
        /\ \A q \in Succeeded :
              /\ ~FGreater(ScoredOf(q), ScoredOf(result.proposal.provider))
              /\ ScoredOf(q) = ScoredOf(result.proposal.provider)
                    => RecordedAt(result.proposal.provider) <= RecordedAt(q)

\* C2: once every provider call of the call has returned, no permit is held.
C2_PermitsReleased ==
    (call = "BeaconBlockProposal" /\ unspawned = {}
        /\ \A p \in Providers : gpc[p] \in {"lock", "update", "done"})
    => sem = 0

\* The result of a call in which no provider succeeded.
C5_AllFailedInv ==
    (BestReturned /\ Succeeded = {}) => result = [proposal |-> Nil, err |-> Nil]

\* A goroutine that exits on a failure path (from the semaphore wait or from
\* the provider call) leaves the running best alone.
C5_FailureStep ==
    (\E p \in Providers : gpc[p] \in {"acquire", "call"} /\ gpc'[p] = "done")
    => UNCHANGED <<bestScore, bestProposal>>

\* C5: when every provider failed the call returns a nil proposal and a nil
\* error, and a failed provider never changes bestScore or bestProposal.
C5_AllFail == []C5_AllFailedInv /\ [][C5_FailureStep]_vars

C5_Witness ==
    /\ BestReturned
    /\ Failed = Providers
    /\ result.proposal = Nil

\* C9: in the state where BeaconBlockProposal has returned every provider
\* goroutine has finished; none is waiting for a permit, calling its provider
\* or about to update the running best.
C9_ReturnsAfterAll ==
    BestReturned => \A p \in Providers : gpc[p] = "done"

C9_Witness ==
    /\ BestReturned
    /\ Succeeded # {}
    /\ Failed # {}

\* A unit of work blocked on the semaphore leaves the wait only with the
\* cancellation error: it exits without having called its provider.
C10_UnblockStep ==
    \A p \in Providers :
        (gpc[p] = "acquire" /\ sem = processConcurrency /\ gpc'[p] # "acquire")
           => (ctxDone /\ gpc'[p] = "done" /\ clientOps'[p] = "none")

\* C10: once the parent context is cancelled the call eventually returns,
\* and a unit of work blocked on the semaphore is unblocked by the
\* cancellation error only.
C10_CancelUnblocks ==
    /\ (call = "BeaconBlockProposal" /\ ctxDone) ~> (pc = "returned")
    /\ [][C10_UnblockStep]_vars

C10_Witness ==
    /\ BestReturned
    /\ ctxDone
    /\ sem = processConcurrency
    /\ \E p \in Providers : gpc[p] = "done" /\ clientOps[p] = "none"

\* ------------------------------------------------------------------------
\* Properties of calculateSubscriptionInfo
\* ------------------------------------------------------------------------
CalcReturned == call = "calculateSubscriptionInfo" /\ pc = "returned"
Sharing(key) == {v \in Validators : keyOf[v] = key}
\* Workers between sem.Acquire and the deferred sem.Release.
Admitted == {v \in Validators : wpc[v] \in {"rlock", "read", "oracle", "lock", "pubkey"}}

\* C3: when several validators with resolvable accounts share a tuple, the
\* oracle answered for each of them (true for exactly one, V1) and every
\* public key was obtained, the returned map holds at that tuple the
\* Subscription of V1 with Aggregate = true.
C3_AggregatorEntryKept ==
    \A key \in Keys :
        (/\ CalcReturned
         /\ ~ctxDone
         /\ Cardinality(Sharing(key)) >= 2
         /\ Sharing(key) \subseteq resolvable
         /\ Cardinality(Sharing(key) \cap aggregators) = 1
         /\ \A v \in Sharing(key) : exit[v] \in {"written", "skip"})
        => /\ result.info[key] # Nil
           /\ result.info[key].Aggregate
           /\ result.info[key].ValidatorIndex \in aggregators
           /\ result.info[key].ValidatorPubKey
                 = <<"pubkey", result.info[key].ValidatorIndex>>

\* No step changes the entry of a tuple that holds an aggregator.
C4_AggregatorStep ==
    \A key \in Keys :
        AlreadyAggregator(key) => subscriptionInfo'[key] = subscriptionInfo[key]

\* C4: a Subscription with Aggregate = true, once written for a tuple, is
\* never replaced by a later write.
C4_AggregatorNeverReplaced == [][C4_AggregatorStep]_vars

\* C7 as stated: when the index lookup fails for every account the call
\* returns an error.
C7_ErrorWhenNoAccountResolves ==
    (CalcReturned /\ resolvable = {}) => result.err # Nil

\* C7 as amended: when the index lookup fails for every account the call
\* returns a nil error and a map without any Subscription and without any
\* slot entry.
C7_EmptyMapWhenNoAccountResolves ==
    (CalcReturned /\ resolvable = {}) =>
        /\ result.err = Nil
        /\ result.slots = {}
        /\ \A key \in Keys : result.info[key] = Nil

C7_Witness ==
    /\ CalcReturned
    /\ resolvable = {}
    /\ \A v \in Validators : exit[v] = "noaccount"

\* C8: the provider calls in flight of BeaconBlockProposal, and the workers
\* of calculateSubscriptionInfo between semaphore acquisition and release,
\* never number more than processConcurrency.
C8_BoundedInFlight ==
    /\ Cardinality(InFlight) <= processConcurrency
    /\ Cardinality(Admitted) <= processConcurrency

C8_Witness ==
    /\ call = "calculateSubscriptionInfo"
    /\ Cardinality({v \in Validators : wpc[v] = "oracle"}) = processConcurrency
    /\ \E v \in Validators : wpc[v] = "acquire"

\* ------------------------------------------------------------------------
\* Properties of scoreBeaconBlockProposal
\* ------------------------------------------------------------------------
ScoreReturned == call = "scoreBeaconBlockProposal" /\ pc = "returned"

WellFormed(s, p) ==
    \A i \in 1..Len(p.attestations) : p.attestations[i].slot < s

\* C6: for a proposal whose attestations are all for earlier slots, the
\* returned value is attestation score + proposer-slashing score +
\* attester-slashing score, each slashing weighing 700; a proposal with no
\* attestation and no slashing scores 0.
C6_ScoreIsSumOfThree ==
    (ScoreReturned /\ WellFormed(slot, blockProposal)) =>
        /\ scoreResult = loggedTotal(slot, blockProposal)
        /\ (/\ blockProposal.attestations = <<>>
            /\ blockProposal.proposerSlashings = 0
            /\ blockProposal.attesterSlashings = 0) => scoreResult = Zero

\* An attestation for a slot before the proposal's slot.
EarlierThanProposal(att) == att.slot < slot

\* C11: an attestation whose inclusion distance is zero or negative
\* contributes nothing to the score: the returned value is the one of the
\* proposal without these attestations, and it is a finite number with no
\* term coming from a wrapped-around unsigned distance.
C11_MalformedDistanceContributesZero ==
    ScoreReturned =>
        /\ scoreResult.kind = "fin"
        /\ scoreResult.tiny = 0
        /\ scoreResult = scoreBeaconBlockProposal(slot,
              [blockProposal EXCEPT
                  !.attestations = SelectSeq(@, EarlierThanProposal)])

\* ------------------------------------------------------------------------
\* Properties of Subscribe
\* ------------------------------------------------------------------------
\* calculateSubscriptionInfo has not been entered and nothing was submitted.
CalculationNotRun ==
    /\ accountMap = {}
    /\ innerMaps = {}
    /\ \A key \in Keys : subscriptionInfo[key] = Nil
    /\ \A s \in Slots : dpc[s] = "idle"
    /\ \A v \in Validators : wpc[v] = "idle" /\ exit[v] = "none"
    /\ sem = 0
    /\ wg = 0

SubscribeReturned == call = "Subscribe" /\ pc = "returned"

\* Subscribe leaves the duty fetch or the merge only to the next stage or,
\* on failure, to a return of a nil map and an error.
C12_FailureStep ==
    (call = "Subscribe" /\ pc \in {"fetch", "merge"} /\ pc' = "returned")
    => /\ result'.err # Nil
       /\ result'.info = Nil
       /\ submit' = "none"

\* A call that returned an error has never entered the calculation and has
\* never started a submission.
C12_FailedInv ==
    (SubscribeReturned /\ result.err # Nil)
    => /\ result.info = Nil
       /\ CalculationNotRun
       /\ submit = "none"
       /\ counts = Nil

\* C12: when the duty fetch or the duty merge fails, Subscribe returns an
\* error and a nil map, and neither runs the calculation nor invokes the
\* submitter.
C12_FetchOrMergeFailure ==
    /\ []C12_FailedInv
    /\ [][C12_FailureStep]_vars

C12_Witness ==
    /\ SubscribeReturned
    /\ result.err = [error |-> "failed to merge attester duties"]
    /\ completed = <<"failed">>

\* The outcome of the submission changes the goroutine's position and the
\* reported status and nothing else.
C13_SubmissionStep ==
    (submit = "pending" /\ submit' # "pending")
    => /\ completed' = Append(completed, submit')
       /\ UNCHANGED <<callVars, counts, calcVars>>

\* The value returned by Subscribe after a calculation: the calculated map
\* and a nil error.
C13_ReturnedMap ==
    (SubscribeReturned /\ submit # "none")
    => /\ result.err = Nil
       /\ result.info = subscriptionInfo
       /\ result.slots = innerMaps

\* C13: once the submission goroutine is started Subscribe returns the
\* calculated map with a nil error without waiting for the submission, and
\* the submitter's outcome never changes the returned map or error: it shows
\* in the monitor status only.
C13_ReturnsWithoutWaiting ==
    /\ []((call = "Subscribe" /\ pc = "return") => ENABLED SubscribeReturn)
    /\ []C13_ReturnedMap
    /\ [][C13_SubmissionStep]_vars

C13_Witness ==
    /\ SubscribeReturned
    /\ submit = "pending"
    /\ completed = <<>>
    /\ \E key \in Keys : result.info[key] # Nil

\* ------------------------------------------------------------------------
\* Further properties of calculateSubscriptionInfo
\* ------------------------------------------------------------------------
\* The account-index lookup fails for some accounts and succeeds for others.
PartialLookupFailure == resolvable # {} /\ resolvable # Validators

\* The Subscription a validator's own duty, account and oracle answer give.
OwnSubscription(v) ==
    [ValidatorIndex |-> v, ValidatorPubKey |-> <<"pubkey", v>>,
     Signature |-> <<"sig", v>>, Aggregate |-> v \in aggregators]

\* The returned map under a partial lookup failure: a nil error, and every
\* Subscription is the one of a validator whose account resolved and whose
\* duty is for that tuple.
C14_ReturnedInv ==
    (CalcReturned /\ PartialLookupFailure)
    => /\ result.err = Nil
       /\ \A key \in Keys :
             result.info[key] # Nil =>
                \E v \in resolvable \cap Sharing(key) :
                    result.info[key] = OwnSubscription(v)

\* A step of the worker of a validator whose account failed leaves the map
\* and its write lock as they are.
C14_FailedAccountStep ==
    \A v \in Validators \ resolvable :
        wpc'[v] # wpc[v] => UNCHANGED <<subscriptionInfo, innerMaps, writer>>

\* C14: when the index lookup fails for some accounts only, the call returns
\* a map with a nil error, no Subscription of the map belongs to a validator
\* of a failed account, and the workers of the failed accounts take no part
\* in what is written for the validators whose accounts resolved.
C14_PartialLookupFailure ==
    /\ []C14_ReturnedInv
    /\ [][C14_FailedAccountStep]_vars

C14_Witness ==
    /\ CalcReturned
    /\ PartialLookupFailure
    /\ \E v \in Validators : exit[v] = "noaccount"
    /\ \E key \in Keys : result.info[key] # Nil

\* C15: a worker that has exited, on whatever path, holds neither the read
\* nor the write lock of the map, and every permit still taken belongs to a
\* worker that has not exited.
C15_ExitedWorkerHoldsNothing ==
    /\ \A v \in Validators :
          wpc[v] = "done" => (v \notin readers /\ writer # <<v>>)
    /\ sem = Cardinality(Admitted)

\* C16: under weak fairness of every goroutine's steps the call returns,
\* whatever the workers' outcomes.
C16_CalcTerminates == <>CalcReturned

\* ------------------------------------------------------------------------
\* Termination of BeaconBlockProposal
\* ------------------------------------------------------------------------
\* C17: under weak fairness of every goroutine's steps a call whose context
\* is never cancelled returns, for every number of providers and every
\* processConcurrency; that is, every behaviour reaches a cancellation or
\* the return.
C17_BestTerminatesWithoutCancel ==
    <>(ctxDone \/ BestReturned)

\* The goroutines the wait group has to wait for: per-duty goroutines that
\* are running and workers that are started and have not exited.
Outstanding ==
    Cardinality({s \in Slots : dpc[s] = "run"})
    + Cardinality({v \in Validators : wpc[v] \notin {"idle", "done"}})

\* C18: the wait-group counter equals the number of goroutines started and
\* not finished, at both levels of the fan-out; when the wait is over every
\* per-duty goroutine and every worker has finished, and the returned map is
\* the map as it stays ever after.
C18_WaitGroupSound ==
    /\ call = "calculateSubscriptionInfo" => wg = Outstanding
    /\ (call = "calculateSubscriptionInfo" /\ pc = "wait" /\ WaitDone)
       => /\ \A s \in DutySlots : dpc[s] = "done"
          /\ \A v \in Validators : wpc[v] = "done"
    /\ CalcReturned
       => /\ \A s \in DutySlots : dpc[s] = "done"
          /\ \A v \in Validators : wpc[v] = "done"
          /\ result.info = subscriptionInfo
          /\ result.slots = innerMaps

C18_Witness ==
    /\ CalcReturned
    /\ Cardinality(DutySlots) >= 2
    /\ \E v \in Validators : exit[v] = "written"

\* What a worker does with what it read under the read lock.
C19_ReadStep ==
    \A v \in Validators :
        (wpc[v] = "read" /\ wpc'[v] # "read")
        => IF /\ subscriptionInfo[keyOf[v]] # Nil
              /\ subscriptionInfo[keyOf[v]].Aggregate
           THEN /\ wpc'[v] = "done"
                /\ exit'[v] = "skip"
                /\ isAggregator'[v] = isAggregator[v]
                /\ UNCHANGED <<subscriptionInfo, innerMaps, writer>>
           ELSE /\ wpc'[v] = "oracle"
                /\ exit'[v] = "none"

\* C19: a worker that finds an entry with Aggregate = true for its tuple
\* exits without calling the selection oracle and without modifying the
\* map; a worker that finds no entry, or an entry with Aggregate = false,
\* goes on to the oracle.
C19_SkipOnlyOnAggregator ==
    /\ [][C19_ReadStep]_vars
    /\ [](\A v \in Validators : exit[v] = "skip" => ~isAggregator[v])

C19_Witness ==
    /\ CalcReturned
    /\ \E v, u \in Validators :
          /\ exit[v] = "skip"
          /\ exit[u] = "written"
          /\ keyOf[u] = keyOf[v]
    /\ \E key \in Keys : result.info[key] # Nil /\ result.info[key].Aggregate

\* ------------------------------------------------------------------------
\* The monitor reports of Subscribe
\* ------------------------------------------------------------------------
\* The call has returned and its submission goroutine, if any, has finished.
SubscribeFinished == SubscribeReturned /\ submit # "pending"

\* C20: a Subscribe call never reports more than one terminal status; once
\* the call and its submission are over it has reported exactly one,
\* "failed" when the fetch, the merge, the calculation or the submission
\* failed and "succeeded" when the submission succeeded; the subscriber and
\* aggregator counts are reported only after a calculation that succeeded,
\* and they are the counts of the calculated map.
C20_OneTerminalStatus ==
    /\ Len(completed) <= 1
    /\ SubscribeFinished
       => completed = <<IF result.err # Nil \/ submit = "failed"
                        THEN "failed" ELSE "succeeded">>
    /\ completed # <<>>
       => \/ SubscribeReturned /\ result.err # Nil /\ submit = "none"
          \/ submit = completed[1]
    /\ counts # Nil
       => /\ call = "Subscribe"
          /\ pc \in {"return", "returned"}
          /\ result.err = Nil
          /\ submit # "none"
          /\ counts = CountSubscriptions(result.info)
    /\ (SubscribeReturned /\ result.err # Nil) => counts = Nil

C20_Witness ==
    /\ SubscribeFinished
    /\ submit = "succeeded"
    /\ completed = <<"succeeded">>
    /\ counts.subscribers >= 1
    /\ \E v \in Validators : exit[v] = "noaccount"

====
